---- MODULE Spec2Model ----
(***************************************************************************)
(* HyperNova gameplay core: the Storm (hazard zone) phase machine, the     *)
(* Weapon ammo/reload machine and the Player damage/movement controller.   *)
(*                                                                         *)
(* Numbers of the program are JavaScript doubles.  They are modelled as    *)
(* exact rationals <<numerator, denominator>> (denominator > 0, lowest     *)
(* terms).  The storm radius, which the program rewrites every frame by    *)
(* a subtraction, keeps a finite precision: the results of the two         *)
(* statements that assign it are rounded to the nearest multiple of        *)
(* 1/RadiusGrid (ties to even), as IEEE-754 rounds them to the nearest     *)
(* representable double.                                                   *)
(***************************************************************************)
EXTENDS Integers, Sequences, FiniteSets, TLC

VARIABLES
    \* Storm.ts fields
    radius, targetRadius, phase, timeRemaining, nextPhaseTime,
    \* arguments and return value of the last Storm.update call
    stormDelta, stormPos, stormRet,
    \* Player.weapons: a sequence of Weapon objects (part_001 fields)
    weapons,
    \* performance.now() / 1000: seconds since the page was loaded
    now,
    \* per weapon: ammo + reserveAmmo when the running reload was accepted,
    \* whether addAmmo was called since, and the dt passed to update since
    reloadBase,
    \* per weapon: the time of its last shot that fired (Never if none)
    lastFired,
    \* the last Weapon or Player stats method called: its name, the weapon it
    \* was called on, its argument
    lastCall,
    \* Player.ts fields, and the camera height controls.getObject().position.y
    player,
    \* number of pickUpPowerUp calls made
    pickups,
    \* position of the asynchronous Player.initWeapons: "idle" before the
    \* call, "loading" while the Weapon.init promises are pending, then "done"
    initPc,
    \* answers of the last collision queries (World.getCollidableObjects rays)
    query,
    \* arguments of the last controls.moveRight / controls.moveForward calls
    moved,
    \* Game.isGameRunning: the pointer is locked and the host loop delivers
    \* its ticks
    isGameRunning,
    \* THREE.Clock.oldTime of Game.clock: the time of the last getDelta()
    oldTime,
    \* controls.getObject().position.x and .z
    position

stormVars == <<radius, targetRadius, phase, timeRemaining, nextPhaseTime,
               stormDelta, stormPos, stormRet>>

weaponVars == <<weapons, now, reloadBase, lastFired, lastCall>>

playerVars == <<player, pickups, initPc, query, moved>>

gameVars == <<isGameRunning, oldTime, position>>

vars == <<stormVars, weaponVars, playerVars, gameVars>>

----------------------------------------------------------------------------
(* Exact rational arithmetic                                               *)

Abs(n) == IF n < 0 THEN -n ELSE n

\* Euclid's algorithm; each step works on an evaluated pair.
RECURSIVE GCD(_, _)
GCD(a, b) ==
    IF b = 0 THEN a
    ELSE CHOOSE g \in { GCD(p[1], p[2]) : p \in {<<b, a % b>>} } : TRUE

Lowest(n, d) ==
    LET s == IF d < 0 THEN -1 ELSE 1
        g == GCD(Abs(n), Abs(d))
    IN  <<(s * n) \div g, (s * d) \div g>>

Norm(n, d) == CHOOSE q \in { Lowest(p[1], p[2]) : p \in {<<n, d>>} } : TRUE

R(n)       == <<n, 1>>
Q(n, d)    == Norm(n, d)
RAdd(a, b) == Norm(a[1] * b[2] + b[1] * a[2], a[2] * b[2])
RSub(a, b) == Norm(a[1] * b[2] - b[1] * a[2], a[2] * b[2])
RMul(a, b) == Norm(a[1] * b[1], a[2] * b[2])
RDiv(a, b) == Norm(a[1] * b[2], a[2] * b[1])
RLt(a, b)  == a[1] * b[2] < b[1] * a[2]
RLe(a, b)  == a[1] * b[2] <= b[1] * a[2]
RMax(a, b) == CHOOSE m \in { IF RLt(p[1], p[2]) THEN p[2] ELSE p[1] : p \in {<<a, b>>} } : TRUE
RMin(a, b) == CHOOSE m \in { IF RLt(p[2], p[1]) THEN p[2] ELSE p[1] : p \in {<<a, b>>} } : TRUE
Zero       == R(0)

\* Precision kept by the stored radius: multiples of 1/RadiusGrid.
RadiusGrid == 2

\* Round a rational to the nearest multiple of 1/RadiusGrid, ties to even.
RoundUnits(n, d) ==
    LET f   == n \div d
        rem == n - f * d
    IN  IF 2 * rem < d THEN f
        ELSE IF 2 * rem > d THEN f + 1
        ELSE IF f % 2 = 0 THEN f ELSE f + 1

RoundRadius(q) ==
    CHOOSE r \in { Norm(RoundUnits(p[1] * RadiusGrid, p[2]), RadiusGrid) : p \in {q} } : TRUE

----------------------------------------------------------------------------
(* Storm                                                                   *)

initialRadius  == R(200)
finalRadius    == R(20)
shrinkDuration == R(60)
pauseDuration  == R(30)
damage         == R(2)

\* Frame times handed to Storm.update.
StormDeltas == {R(0), R(15), R(30), R(60)}

\* Actor positions (x, z) handed to Storm.update.
StormPositions == {<<R(15), R(20)>>, <<R(0), R(-140)>>}

\* THREE.Vector2.distanceTo(center) > r, for r >= 0, center = (0, 0):
\* sqrt(x^2 + z^2) > r  iff  x^2 + z^2 > r^2.
DistanceGreater(pos, r) ==
    RLt(RMul(r, r), RAdd(RMul(pos[1], pos[1]), RMul(pos[2], pos[2])))

StormStart ==
    /\ radius = initialRadius
    /\ targetRadius = initialRadius
    /\ phase = "paused"
    /\ timeRemaining = pauseDuration
    /\ nextPhaseTime = pauseDuration
    /\ stormDelta = Zero
    /\ stormPos = <<R(0), R(0)>>
    /\ stormRet = Zero

\* The phase entered when the timer of phase ph runs out, and its duration.
NextPhase(ph) == IF ph = "paused" THEN "shrinking" ELSE "paused"

PhaseDurationSame(ph) == pauseDuration

PhaseDuration(ph) == IF ph = "shrinking" THEN shrinkDuration ELSE pauseDuration

ShrinkTargetNoFloor(r) == RoundRadius(RMul(r, Q(7, 10)))

ShrinkTarget(r) == RMax(RoundRadius(RMul(r, Q(7, 10))), finalRadius)

ShrinkStepGrows(r, target, delta, remaining) ==
    LET shrinkAmount == RMul(delta, RDiv(RSub(r, target), remaining))
    IN  RMax(RoundRadius(RAdd(r, shrinkAmount)), target)

ShrinkStep(r, target, delta, remaining) ==
    LET shrinkAmount == RMul(delta, RDiv(RSub(r, target), remaining))
    IN  RMax(RoundRadius(RSub(r, shrinkAmount)), target)

StormDamageInclusive(pos, r, delta) ==
    IF ~DistanceGreater(pos, r) /\ RMul(r, r) # RAdd(RMul(pos[1], pos[1]), RMul(pos[2], pos[2]))
    THEN Zero ELSE RMul(damage, delta)

StormDamage(pos, r, delta) ==
    IF DistanceGreater(pos, r) THEN RMul(damage, delta) ELSE Zero

\* Storm.update that carries the overshoot of the timer into the next phase.
StormUpdateCarry(delta, playerPosition) ==
    \E t1 \in {RSub(timeRemaining, delta)} :
    \E expired \in {RLe(t1, Zero)} :
    \E phase1 \in {IF expired THEN NextPhase(phase) ELSE phase} :
    \E t2 \in {IF expired THEN RAdd(PhaseDuration(phase1), t1) ELSE t1} :
    \E target1 \in {IF expired /\ phase = "paused"
                    THEN ShrinkTarget(radius) ELSE targetRadius} :
    \E radius1 \in {IF phase1 = "shrinking"
                    THEN ShrinkStep(radius, target1, delta, t2) ELSE radius} :
        /\ phase' = phase1
        /\ timeRemaining' = t2
        /\ nextPhaseTime' = IF expired THEN t2 ELSE nextPhaseTime
        /\ targetRadius' = target1
        /\ radius' = radius1
        /\ stormDelta' = delta
        /\ stormPos' = playerPosition
        /\ stormRet' = StormDamage(playerPosition, radius1, delta)

\* Storm.update.  The intermediate values are bound one after the other,
\* in the order the method computes them.
StormUpdate(delta, playerPosition) ==
    \E t1 \in {RSub(timeRemaining, delta)} :
    \E expired \in {RLe(t1, Zero)} :
    \E phase1 \in {IF expired THEN NextPhase(phase) ELSE phase} :
    \E t2 \in {IF expired THEN PhaseDuration(phase1) ELSE t1} :
    \E target1 \in {IF expired /\ phase = "paused"
                    THEN ShrinkTarget(radius) ELSE targetRadius} :
    \E radius1 \in {IF phase1 = "shrinking"
                    THEN ShrinkStep(radius, target1, delta, t2) ELSE radius} :
        /\ phase' = phase1
        /\ timeRemaining' = t2
        /\ nextPhaseTime' = IF expired THEN t2 ELSE nextPhaseTime
        /\ targetRadius' = target1
        /\ radius' = radius1
        /\ stormDelta' = delta
        /\ stormPos' = playerPosition
        /\ stormRet' = StormDamage(playerPosition, radius1, delta)

StormTick ==
    /\ \E delta \in StormDeltas, p \in StormPositions : StormUpdate(delta, p)
    /\ UNCHANGED <<weaponVars, playerVars, gameVars>>

\* The host loop keeps calling update with a positive frame time, here for
\* an actor standing still.
LoopDeltas == {R(15), R(60)}

StormTickPositive ==
    /\ \E delta \in LoopDeltas : StormUpdate(delta, <<R(15), R(20)>>)
    /\ UNCHANGED <<weaponVars, playerVars, gameVars>>

----------------------------------------------------------------------------
(* Weapon                                                                  *)

\* Largest magazine and reserve capacities of the weapon configurations.
MaxMag     == 2
MaxReserve == 1

\* Wall-clock horizon, in twentieths of a second.
MaxNow == 4

\* Time after which update hides the muzzle flash.
flashTime == Q(1, 20)

\* WeaponConfig values handed to the constructor: fireRate 10 as the
\* assault rifle, a reload time short enough to complete within MaxNow.
WeaponConfigs ==
    { [fireRate |-> R(10), reloadTime |-> Q(3, 20), maxAmmo |-> m,
       maxReserveAmmo |-> r, ammo |-> a, reserveAmmo |-> b] :
         m \in 1..MaxMag, r \in {MaxReserve}, a \in 0..MaxMag, b \in 0..MaxReserve }

\* new Weapon(config, ...), followed by init() when loaded: init attaches the
\* model, hides it and creates the muzzle flash, so muzzleFlash also tells
\* that the model is there; visible is model.visible.
NewWeapon(config, loaded) ==
    [ config          |-> config,
      ammo            |-> config.ammo,
      reserveAmmo     |-> config.reserveAmmo,
      isReloading     |-> FALSE,
      lastShotTime    |-> Zero,
      shootingInterval |-> RDiv(R(1), config.fireRate),
      muzzleFlash     |-> loaded,
      flashVisible    |-> FALSE,
      visible         |-> FALSE ]

WeaponReloadAtFull(w) ==
    IF w.isReloading \/ w.reserveAmmo <= 0
    THEN w
    ELSE [w EXCEPT !.isReloading = TRUE, !.lastShotTime = Zero]

WeaponReload(w) ==
    IF w.isReloading \/ w.ammo = w.config.maxAmmo \/ w.reserveAmmo <= 0
    THEN w
    ELSE [w EXCEPT !.isReloading = TRUE, !.lastShotTime = Zero]

WeaponCompleteReloadFree(w) ==
    LET ammoNeeded == w.config.maxAmmo - w.ammo
        ammoToAdd  == IF ammoNeeded < w.reserveAmmo THEN ammoNeeded ELSE w.reserveAmmo
    IN  [w EXCEPT !.ammo = @ + ammoToAdd,
                  !.isReloading = FALSE]

WeaponCompleteReload(w) ==
    LET ammoNeeded == w.config.maxAmmo - w.ammo
        ammoToAdd  == IF ammoNeeded < w.reserveAmmo THEN ammoNeeded ELSE w.reserveAmmo
    IN  [w EXCEPT !.ammo = @ + ammoToAdd,
                  !.reserveAmmo = @ - ammoToAdd,
                  !.isReloading = FALSE]

WeaponShootCooldownFirst(w, t) ==
    IF w.isReloading
    THEN w
    ELSE IF RLt(RSub(t, w.lastShotTime), w.shootingInterval)
    THEN w
    ELSE IF w.ammo <= 0
    THEN WeaponReload(w)
    ELSE [w EXCEPT !.lastShotTime = t,
                   !.ammo = @ - 1,
                   !.flashVisible = IF w.muzzleFlash THEN TRUE ELSE @]

WeaponShootEmpty(w, t) ==
    IF w.isReloading
    THEN w
    ELSE IF RLt(RSub(t, w.lastShotTime), w.shootingInterval)
    THEN w
    ELSE [w EXCEPT !.lastShotTime = t,
                   !.ammo = @ - 1,
                   !.flashVisible = IF w.muzzleFlash THEN TRUE ELSE @]

WeaponShootWhileReloading(w, t) ==
    IF w.ammo <= 0
    THEN WeaponReload(w)
    ELSE IF RLt(RSub(t, w.lastShotTime), w.shootingInterval)
    THEN w
    ELSE [w EXCEPT !.lastShotTime = t,
                   !.ammo = @ - 1,
                   !.flashVisible = IF w.muzzleFlash THEN TRUE ELSE @]

WeaponShootNoReload(w, t) ==
    IF w.isReloading \/ w.ammo <= 0
    THEN w
    ELSE IF RLt(RSub(t, w.lastShotTime), w.shootingInterval)
    THEN w
    ELSE [w EXCEPT !.lastShotTime = t,
                   !.ammo = @ - 1,
                   !.flashVisible = IF w.muzzleFlash THEN TRUE ELSE @]

WeaponShoot(w, t) ==
    IF w.isReloading \/ w.ammo <= 0
    THEN (IF w.ammo <= 0 THEN WeaponReload(w) ELSE w)
    ELSE IF RLt(RSub(t, w.lastShotTime), w.shootingInterval)
    THEN w
    ELSE [w EXCEPT !.lastShotTime = t,
                   !.ammo = @ - 1,
                   !.flashVisible = IF w.muzzleFlash THEN TRUE ELSE @]

WeaponUpdateStrict(w, delta) ==
    LET a  == [w EXCEPT !.lastShotTime = RAdd(@, delta)]
        w1 == IF w.isReloading
              THEN (IF RLt(a.config.reloadTime, a.lastShotTime)
                    THEN WeaponCompleteReload(a) ELSE a)
              ELSE w
        b  == [w1 EXCEPT !.lastShotTime = RAdd(@, delta)]
    IN  IF w1.muzzleFlash /\ w1.flashVisible
        THEN (IF RLt(flashTime, b.lastShotTime)
              THEN [b EXCEPT !.flashVisible = FALSE] ELSE b)
        ELSE w1

WeaponUpdate(w, delta) ==
    LET a  == [w EXCEPT !.lastShotTime = RAdd(@, delta)]
        w1 == IF w.isReloading
              THEN (IF RLe(a.config.reloadTime, a.lastShotTime)
                    THEN WeaponCompleteReload(a) ELSE a)
              ELSE w
        b  == [w1 EXCEPT !.lastShotTime = RAdd(@, delta)]
    IN  IF w1.muzzleFlash /\ w1.flashVisible
        THEN (IF RLt(flashTime, b.lastShotTime)
              THEN [b EXCEPT !.flashVisible = FALSE] ELSE b)
        ELSE w1

WeaponAddAmmoNoClamp(w, amount) ==
    [w EXCEPT !.reserveAmmo = @ + amount]

WeaponAddAmmo(w, amount) ==
    LET sum == w.reserveAmmo + amount
    IN  [w EXCEPT !.reserveAmmo =
            IF w.config.maxReserveAmmo < sum THEN w.config.maxReserveAmmo ELSE sum]

Total(w) == w.ammo + w.reserveAmmo

Never == R(-1)

Call(op, i, arg) == [op |-> op, i |-> i, arg |-> arg]

\* Bookkeeping of the reload in progress of weapon i, after it became w by
\* the call op(arg): elapsed sums the dt of the updates made during it.
Track(i, w, op, arg) ==
    IF ~weapons[i].isReloading /\ w.isReloading
    THEN [total |-> Total(w), added |-> FALSE, elapsed |-> Zero]
    ELSE IF op = "addAmmo" /\ w.isReloading
    THEN [reloadBase[i] EXCEPT !.added = TRUE]
    ELSE IF op = "update" /\ weapons[i].isReloading
    THEN [reloadBase[i] EXCEPT !.elapsed = RAdd(@, arg)]
    ELSE reloadBase[i]

\* Weapon i becomes w by the call op.
Become(i, w, op, arg) ==
    /\ weapons' = [weapons EXCEPT ![i] = w]
    /\ reloadBase' = [reloadBase EXCEPT ![i] = Track(i, w, op, arg)]
    /\ lastFired' = [lastFired EXCEPT ![i] =
                        IF w.ammo < weapons[i].ammo THEN now ELSE @]

Apply(i, w, op, arg) ==
    /\ Become(i, w, op, arg)
    /\ lastCall' = Call(op, i, arg)

WeaponDeltas  == {R(0), Q(1, 20), Q(1, 10)}
ElapseSteps   == {Q(1, 20), Q(1, 10)}
AmmoPickups   == 0..2

Elapse ==
    /\ \E d \in ElapseSteps :
         /\ RLe(RAdd(now, d), Q(MaxNow, 20))
         /\ now' = RAdd(now, d)
    /\ UNCHANGED <<weapons, reloadBase, lastFired, lastCall, stormVars, playerVars, gameVars>>

ShootCall ==
    /\ \E i \in DOMAIN weapons :
         Apply(i, WeaponShoot(weapons[i], now), "shoot", Zero)
    /\ UNCHANGED <<now, stormVars, playerVars, gameVars>>

ReloadCall ==
    /\ \E i \in DOMAIN weapons :
         Apply(i, WeaponReload(weapons[i]), "reload", Zero)
    /\ UNCHANGED <<now, stormVars, playerVars, gameVars>>

UpdateCall ==
    /\ \E i \in DOMAIN weapons, delta \in WeaponDeltas :
         Apply(i, WeaponUpdate(weapons[i], delta), "update", delta)
    /\ UNCHANGED <<now, stormVars, playerVars, gameVars>>

AddAmmoCall ==
    /\ \E i \in DOMAIN weapons, amount \in AmmoPickups :
         Apply(i, WeaponAddAmmo(weapons[i], amount), "addAmmo", R(amount))
    /\ UNCHANGED <<now, stormVars, playerVars, gameVars>>

WeaponStart ==
    /\ \E c \in WeaponConfigs, loaded \in BOOLEAN :
         /\ c.ammo <= c.maxAmmo
         /\ weapons = <<NewWeapon(c, loaded)>>
    /\ now = Zero
    /\ reloadBase = <<[total |-> 0, added |-> FALSE, elapsed |-> Zero]>>
    /\ lastFired = <<Never>>
    /\ lastCall = Call("new", 0, Zero)

NoWeapons ==
    /\ weapons = <<>>
    /\ now = Zero
    /\ reloadBase = <<>>
    /\ lastFired = <<>>
    /\ lastCall = Call("new", 0, Zero)

----------------------------------------------------------------------------
(* Player                                                                  *)

\* Numbers q and q / sqrt(2): the components of a normalized direction.
Surd(q, root) == [q |-> q, root |-> root /\ q # Zero]
SZero         == Surd(Zero, FALSE)
SScale(s, r)  == Surd(RMul(s.q, r), s.root)
SNeg(s)       == Surd(RSub(Zero, s.q), s.root)
SPositive(s)  == RLt(Zero, s.q)

gravity           == Q(49, 5)
jumpVelocity      == R(5)
walkSpeed         == R(5)
sprintSpeed       == R(10)
standingHeight    == R(2)
crouchingHeight   == R(1)
maxHealth         == R(100)
maxArmor          == R(100)
collisionDistance == R(1)
playerRadius      == Q(1, 2)
climbSpeed        == R(3)
climbReach        == Q(3, 2)
groundedVelocity  == Q(-1, 10)
shieldArmor       == R(50)

\* new Player(controls, camera)
NewPlayer ==
    [ moveForward |-> FALSE, moveBackward |-> FALSE,
      moveLeft |-> FALSE, moveRight |-> FALSE, sprint |-> FALSE,
      velocity |-> [x |-> SZero, y |-> Zero, z |-> SZero],
      y |-> R(2),
      isCrouching |-> FALSE, isJumping |-> FALSE, isClimbing |-> FALSE,
      health |-> R(100), armor |-> Zero,
      currentWeaponIndex |-> 0 ]

\* A ray that intersects nothing.
NoHit == R(-1)

StanceFloor(p) ==
    RDiv(IF p.isCrouching THEN crouchingHeight ELSE standingHeight, R(2))

IsOnGround(p) == RLe(p.y, StanceFloor(p))

\* checkClimbing: climbHit is the distance of the nearest climbable
\* intersection ahead, or NoHit.
CheckClimbing(p, climbHit) ==
    LET canClimb == climbHit # NoHit /\ RLt(climbHit, climbReach)
        climbing == canClimb /\ p.moveForward
    IN  [p EXCEPT !.isClimbing = climbing,
                  !.velocity.y = IF climbing
                                 THEN (IF p.moveForward THEN climbSpeed
                                       ELSE IF p.moveBackward THEN RSub(Zero, climbSpeed)
                                       ELSE Zero)
                                 ELSE @]

ApplyGravity(p, delta) ==
    IF p.isClimbing THEN p
    ELSE IF ~IsOnGround(p)
    THEN [p EXCEPT !.velocity.y = RSub(@, RMul(gravity, delta))]
    ELSE IF RLt(p.velocity.y, Zero)
    THEN [p EXCEPT !.velocity.y = groundedVelocity, !.isJumping = FALSE]
    ELSE p

Num(b) == IF b THEN 1 ELSE 0

\* direction.z, direction.x as assigned, without direction.normalize()
DirectionRaw(p) ==
    [x |-> Surd(R(Num(p.moveLeft) - Num(p.moveRight)), FALSE),
     z |-> Surd(R(Num(p.moveBackward) - Num(p.moveForward)), FALSE)]

\* direction.z, direction.x after direction.normalize()
Direction(p) ==
    LET dz == Num(p.moveBackward) - Num(p.moveForward)
        dx == Num(p.moveLeft) - Num(p.moveRight)
        diagonal == dz # 0 /\ dx # 0
    IN  [x |-> Surd(R(dx), diagonal), z |-> Surd(R(dz), diagonal)]

ActualSpeed(p) ==
    LET speed == IF p.sprint THEN sprintSpeed ELSE walkSpeed
    IN  IF p.isCrouching THEN RMul(speed, Q(1, 2)) ELSE speed

IntendedVelocity(p) ==
    [x |-> IF p.moveLeft \/ p.moveRight
           THEN SScale(SNeg(Direction(p).x), ActualSpeed(p)) ELSE SZero,
     z |-> IF p.moveForward \/ p.moveBackward
           THEN SScale(SNeg(Direction(p).z), ActualSpeed(p)) ELSE SZero]

ClimbingMovement(p) ==
    IF (p.moveForward \/ p.moveBackward) /\ p.isClimbing
    THEN [p EXCEPT !.velocity.y = IF p.moveForward THEN climbSpeed ELSE Zero]
    ELSE p

Blocked(hit) == hit # NoHit /\ RLt(hit, RAdd(playerRadius, collisionDistance))

BlockedNoRadius(hit) == hit # NoHit /\ RLt(hit, collisionDistance)

\* checkCollisions: the rays are cast in the order right, left, forward,
\* backward; each may zero the velocity component it is aligned with.
CheckCollisionsNoRadius(hits, velocityX, velocityZ) ==
    LET x1 == IF BlockedNoRadius(hits.right) /\ SPositive(velocityX) THEN SZero ELSE velocityX
        x2 == IF BlockedNoRadius(hits.left) /\ SPositive(SNeg(x1)) THEN SZero ELSE x1
        z1 == IF BlockedNoRadius(hits.forward) /\ SPositive(velocityZ) THEN SZero ELSE velocityZ
        z2 == IF BlockedNoRadius(hits.backward) /\ SPositive(SNeg(z1)) THEN SZero ELSE z1
    IN  [velocityX |-> x2, velocityZ |-> z2]

CheckCollisions(hits, velocityX, velocityZ) ==
    LET x1 == IF Blocked(hits.right) /\ SPositive(velocityX) THEN SZero ELSE velocityX
        x2 == IF Blocked(hits.left) /\ SPositive(SNeg(x1)) THEN SZero ELSE x1
        z1 == IF Blocked(hits.forward) /\ SPositive(velocityZ) THEN SZero ELSE velocityZ
        z2 == IF Blocked(hits.backward) /\ SPositive(SNeg(z1)) THEN SZero ELSE z1
    IN  [velocityX |-> x2, velocityZ |-> z2]

FloorClampCrouching(p) ==
    IF RLt(p.y, RDiv(crouchingHeight, R(2)))
    THEN [p EXCEPT !.y = RDiv(crouchingHeight, R(2)), !.velocity.y = Zero]
    ELSE p

FloorClamp(p) ==
    IF RLt(p.y, StanceFloor(p))
    THEN [p EXCEPT !.y = StanceFloor(p), !.velocity.y = Zero]
    ELSE p

\* Player.update up to the floor clamp (lines 123-180).
PlayerMove(p, delta, hits, climbHit) ==
    LET p1 == ApplyGravity(CheckClimbing(p, climbHit), delta)
        v  == IntendedVelocity(p1)
        p2 == ClimbingMovement(p1)
        c  == CheckCollisions(hits, v.x, v.z)
        p3 == [p2 EXCEPT !.velocity.x = c.velocityX,
                         !.velocity.z = c.velocityZ,
                         !.y = RAdd(@, RMul(p2.velocity.y, delta))]
    IN  FloorClamp(p3)

PlayerJump(p) == [p EXCEPT !.velocity.y = jumpVelocity]

PlayerToggleCrouch(p) ==
    LET heightDifference == RSub(standingHeight, crouchingHeight)
        half == RDiv(heightDifference, R(2))
    IN  [p EXCEPT !.isCrouching = ~@,
                  !.y = IF ~p.isCrouching THEN RSub(@, half) ELSE RAdd(@, half)]

PlayerTakeDamageFullArmor(p, amount) ==
    LET armorDamage == IF RLt(Zero, p.armor) THEN RMin(p.armor, amount) ELSE Zero
        rest        == RSub(amount, armorDamage)
    IN  [p EXCEPT !.armor = RSub(@, armorDamage),
                  !.health = RMax(Zero, RSub(@, rest))]

PlayerTakeDamage(p, amount) ==
    LET armorDamage == IF RLt(Zero, p.armor)
                       THEN RMin(p.armor, RMul(amount, Q(1, 2))) ELSE Zero
        rest        == RSub(amount, armorDamage)
    IN  [p EXCEPT !.armor = RSub(@, armorDamage),
                  !.health = RMax(Zero, RSub(@, rest))]

PlayerHeal(p, amount) == [p EXCEPT !.health = RMin(maxHealth, RAdd(@, amount))]

PlayerAddArmor(p, amount) == [p EXCEPT !.armor = RMin(maxArmor, RAdd(@, amount))]

PlayerAddShield(p) == [p EXCEPT !.armor = RAdd(@, shieldArmor)]

PlayerPickUpPowerUp(p, type) == IF type = "shield" THEN PlayerAddShield(p) ELSE p

NoHits == [right |-> NoHit, left |-> NoHit, forward |-> NoHit, backward |-> NoHit]

\* query and moved describe the Player.update just made, if any.
NoQuery == [hits |-> NoHits, climb |-> NoHit]
NoMove  == [right |-> SZero, forward |-> SZero, direction |-> [x |-> SZero, z |-> SZero]]
NoUpdate == query' = NoQuery /\ moved' = NoMove

PlayerStart ==
    /\ player = NewPlayer
    /\ pickups = 0
    /\ initPc = "idle"
    /\ query = NoQuery
    /\ moved = NoMove

\* new Game(): the loop is constructed stopped; the clock starts with the
\* first animate() of the constructor; the actor is put at (30, 2, 30).
GameStart ==
    /\ isGameRunning = FALSE
    /\ oldTime = Zero
    /\ position = <<R(30), R(30)>>

\* Largest number of power-ups picked up in a match.
MaxPickups == 3

\* Height above which the arena offers nothing to climb and jump is not pressed.
MaxHeight == 2

DamageAmounts == {R(0), R(10), R(40)}
HealAmounts   == {R(0), R(30)}
ArmorAmounts  == {R(0), R(30)}
PowerUpTypes  == {"shield", "health"}

TakeDamageCall ==
    /\ \E amount \in DamageAmounts :
         /\ player' = PlayerTakeDamage(player, amount)
         /\ lastCall' = Call("takeDamage", 0, amount)
    /\ UNCHANGED <<pickups, initPc, query, moved, weapons, now, reloadBase, lastFired, stormVars, gameVars>>

HealCall ==
    /\ \E amount \in HealAmounts :
         /\ player' = PlayerHeal(player, amount)
         /\ lastCall' = Call("heal", 0, amount)
    /\ UNCHANGED <<pickups, initPc, query, moved, weapons, now, reloadBase, lastFired, stormVars, gameVars>>

AddArmorCall ==
    /\ \E amount \in ArmorAmounts :
         /\ player' = PlayerAddArmor(player, amount)
         /\ lastCall' = Call("addArmor", 0, amount)
    /\ UNCHANGED <<pickups, initPc, query, moved, weapons, now, reloadBase, lastFired, stormVars, gameVars>>

PickUpPowerUpCall ==
    /\ pickups < MaxPickups
    /\ \E type \in PowerUpTypes :
         /\ player' = PlayerPickUpPowerUp(player, type)
         /\ lastCall' = Call("pickUpPowerUp", 0, Zero)
    /\ pickups' = pickups + 1
    /\ UNCHANGED <<initPc, query, moved, weapons, now, reloadBase, lastFired, stormVars, gameVars>>

\* Player.initWeapons: the three weapons of the inventory, then switchWeapon(0).
Inventory(loaded) ==
    << NewWeapon([fireRate |-> R(10), reloadTime |-> R(2), maxAmmo |-> 30,
                  maxReserveAmmo |-> 240, ammo |-> 30, reserveAmmo |-> 120], loaded),
       NewWeapon([fireRate |-> R(1), reloadTime |-> R(3), maxAmmo |-> 8,
                  maxReserveAmmo |-> 64, ammo |-> 8, reserveAmmo |-> 32], loaded),
       NewWeapon([fireRate |-> R(3), reloadTime |-> Q(3, 2), maxAmmo |-> 12,
                  maxReserveAmmo |-> 96, ammo |-> 12, reserveAmmo |-> 48], loaded) >>

\* Weapon.init resolved: the model is attached and hidden, the flash created.
WeaponLoaded(w) ==
    [w EXCEPT !.muzzleFlash = TRUE, !.flashVisible = FALSE, !.visible = FALSE]

\* Weapon.show / Weapon.hide act on the model, when there is one.
WeaponShow(w) == IF w.muzzleFlash THEN [w EXCEPT !.visible = TRUE] ELSE w

WeaponHide(w) == IF w.muzzleFlash THEN [w EXCEPT !.visible = FALSE] ELSE w

PlayerSwitchWeaponNoHide(p, ws, index) ==
    IF index >= 0 /\ index < Len(ws)
    THEN [player  |-> [p EXCEPT !.currentWeaponIndex = index],
          weapons |-> [ws EXCEPT ![index + 1] = WeaponShow(@)]]
    ELSE [player |-> p, weapons |-> ws]

\* Player.switchWeapon: the player and the inventory after the call.
PlayerSwitchWeapon(p, ws, index) ==
    IF index >= 0 /\ index < Len(ws)
    THEN LET cur    == p.currentWeaponIndex
             hidden == IF cur >= 0 /\ cur < Len(ws)
                       THEN [ws EXCEPT ![cur + 1] = WeaponHide(@)] ELSE ws
         IN  [player  |-> [p EXCEPT !.currentWeaponIndex = index],
              weapons |-> [hidden EXCEPT ![index + 1] = WeaponShow(@)]]
    ELSE [player |-> p, weapons |-> ws]

\* Player.initWeapons up to its await: the three weapons are constructed
\* and pushed, and their init() calls are started.
InitWeapons ==
    /\ initPc = "idle"
    /\ weapons = <<>>
    /\ weapons' = Inventory(FALSE)
    /\ reloadBase' = [i \in 1..3 |-> [total |-> 0, added |-> FALSE, elapsed |-> Zero]]
    /\ lastFired' = [i \in 1..3 |-> Never]
    /\ initPc' = "loading"
    /\ lastCall' = Call("initWeapons", 0, Zero)
    /\ NoUpdate
    /\ UNCHANGED <<now, player, pickups, stormVars, gameVars>>

\* One pending Weapon.init resolves.
WeaponInitDone ==
    /\ initPc = "loading"
    /\ \E i \in DOMAIN weapons :
         /\ ~weapons[i].muzzleFlash
         /\ weapons' = [weapons EXCEPT ![i] = WeaponLoaded(@)]
         /\ lastCall' = Call("init", i, Zero)
    /\ NoUpdate
    /\ UNCHANGED <<now, reloadBase, lastFired, player, pickups, initPc, stormVars, gameVars>>

\* Promise.all has resolved: initWeapons ends with switchWeapon(0).
InitWeaponsEnd ==
    /\ initPc = "loading"
    /\ \A i \in DOMAIN weapons : weapons[i].muzzleFlash
    /\ player' = PlayerSwitchWeapon(player, weapons, 0).player
    /\ weapons' = PlayerSwitchWeapon(player, weapons, 0).weapons
    /\ initPc' = "done"
    /\ lastCall' = Call("switchWeapon", 0, R(0))
    /\ NoUpdate
    /\ UNCHANGED <<now, reloadBase, lastFired, pickups, stormVars, gameVars>>

\* Indexes handed to Player.switchWeapon (the keys 1-3 give 0..2).
SwitchIndexes == {-1, 0, 1, 2, 3}

SwitchWeaponCall ==
    /\ \E index \in SwitchIndexes :
         /\ player' = PlayerSwitchWeapon(player, weapons, index).player
         /\ weapons' = PlayerSwitchWeapon(player, weapons, index).weapons
         /\ lastCall' = Call("switchWeapon", 0, R(index))
    /\ NoUpdate
    /\ UNCHANGED <<now, reloadBase, lastFired, pickups, initPc, stormVars, gameVars>>

\* Game.onKeyDown / onKeyUp: the movement and sprint flags.
SetFlags ==
    /\ \E b \in BOOLEAN :
         \/ player' = [player EXCEPT !.moveForward = b]
         \/ player' = [player EXCEPT !.moveBackward = b]
         \/ player' = [player EXCEPT !.moveLeft = b]
         \/ player' = [player EXCEPT !.moveRight = b]
         \/ player' = [player EXCEPT !.sprint = b]
    /\ NoUpdate
    /\ UNCHANGED <<pickups, initPc, weaponVars, stormVars, gameVars>>

\* Game.onKeyDown, Space.
JumpCall ==
    /\ RLt(player.y, R(MaxHeight))
    /\ player' = PlayerJump(player)
    /\ lastCall' = Call("jump", 0, Zero)
    /\ NoUpdate
    /\ UNCHANGED <<pickups, initPc, weapons, now, reloadBase, lastFired, stormVars, gameVars>>

ToggleCrouchCall ==
    /\ player' = PlayerToggleCrouch(player)
    /\ NoUpdate
    /\ UNCHANGED <<pickups, initPc, weaponVars, stormVars, gameVars>>

PlayerDeltas == {R(0), R(1)}

\* Answers of the four collision rays, and of the climbing ray.
HitReports ==
    { NoHits,
      [NoHits EXCEPT !.forward = Q(2, 5)],
      [NoHits EXCEPT !.forward = Q(5, 4), !.right = Q(2, 5)],
      [NoHits EXCEPT !.forward = Q(3, 2), !.left = Q(2, 5)],
      [NoHits EXCEPT !.backward = Q(2, 5)] }

ClimbHits == {NoHit, R(1)}

WeaponTickAll(delta) ==
    /\ weapons' = [i \in DOMAIN weapons |-> WeaponUpdate(weapons[i], delta)]
    /\ reloadBase' = [i \in DOMAIN weapons |->
                        Track(i, WeaponUpdate(weapons[i], delta), "update", delta)]
    /\ UNCHANGED lastFired

\* The weapon tick that ends Player.update.
WeaponTick(delta) ==
    IF Len(weapons) > 0 /\ player.currentWeaponIndex >= 0
    THEN Become(player.currentWeaponIndex + 1,
                WeaponUpdate(weapons[player.currentWeaponIndex + 1], delta), "update", delta)
    ELSE UNCHANGED <<weapons, reloadBase, lastFired>>

PlayerUpdateCall ==
    /\ \E delta \in PlayerDeltas, hits \in HitReports, climbHit \in ClimbHits :
         /\ climbHit # NoHit => RLt(player.y, R(MaxHeight))
         /\ player' = PlayerMove(player, delta, hits, climbHit)
         /\ query' = [hits |-> hits, climb |-> climbHit]
         /\ moved' = [right |-> SScale(player'.velocity.x, delta),
                      forward |-> SScale(player'.velocity.z, delta),
                      direction |-> Direction(player)]
         /\ WeaponTick(delta)
    /\ UNCHANGED <<now, lastCall, pickups, initPc, stormVars, gameVars>>

\* Game.onKeyDown / onKeyUp for KeyW and KeyS, the keys used on a ladder.
LadderKeys ==
    /\ \E b \in BOOLEAN :
         \/ player' = [player EXCEPT !.moveForward = b]
         \/ player' = [player EXCEPT !.moveBackward = b]
    /\ lastCall' = Call("key", 0, Zero)
    /\ NoUpdate
    /\ UNCHANGED <<pickups, initPc, weapons, now, reloadBase, lastFired, stormVars, gameVars>>

\* Game.onKeyDown, KeyC.
CrouchKey ==
    /\ player' = PlayerToggleCrouch(player)
    /\ lastCall' = Call("toggleCrouch", 0, Zero)
    /\ NoUpdate
    /\ UNCHANGED <<pickups, initPc, weapons, now, reloadBase, lastFired, stormVars, gameVars>>

LadderDeltas == {Q(1, 2), R(1)}

\* Height of the top of the ladders.
LadderTop == 3

\* Player.update in the open (no collision ray hits), with or without a
\* climbable surface ahead.
LadderUpdateCall ==
    /\ \E delta \in LadderDeltas, climbHit \in ClimbHits :
         /\ climbHit # NoHit => RLt(player.y, R(LadderTop))
         /\ player' = PlayerMove(player, delta, NoHits, climbHit)
         /\ query' = [hits |-> NoHits, climb |-> climbHit]
         /\ moved' = [right |-> SScale(player'.velocity.x, delta),
                      forward |-> SScale(player'.velocity.z, delta),
                      direction |-> Direction(player)]
         /\ lastCall' = Call("update", 0, delta)
         /\ WeaponTick(delta)
    /\ UNCHANGED <<now, pickups, initPc, stormVars, gameVars>>

----------------------------------------------------------------------------
(* Host loop                                                               *)

\* controls 'lock' event, after the click that asks for the pointer lock.
Lock ==
    /\ ~isGameRunning
    /\ isGameRunning' = TRUE
    /\ lastCall' = Call("lock", 0, Zero)
    /\ NoUpdate
    /\ UNCHANGED <<weapons, now, reloadBase, lastFired, player, pickups, initPc,
                   oldTime, position, stormVars>>

\* controls 'unlock' event.
Unlock ==
    /\ isGameRunning
    /\ isGameRunning' = FALSE
    /\ lastCall' = Call("unlock", 0, Zero)
    /\ NoUpdate
    /\ UNCHANGED <<weapons, now, reloadBase, lastFired, player, pickups, initPc,
                   oldTime, position, stormVars>>

\* mousedown with the left button: Player.shoot on the current weapon.
MouseDown ==
    /\ isGameRunning
    /\ Len(weapons) > 0 /\ player.currentWeaponIndex >= 0
    /\ \E i \in {player.currentWeaponIndex + 1} :
         Apply(i, WeaponShoot(weapons[i], now), "shoot", Zero)
    /\ NoUpdate
    /\ UNCHANGED <<now, player, pickups, initPc, gameVars, stormVars>>

\* Latest time of the runs of the trigger, in twentieths of a second.
MaxClock == 6

\* Time passes between two events.
Wait ==
    /\ \E d \in ElapseSteps :
         /\ RLe(RAdd(now, d), Q(MaxClock, 20))
         /\ now' = RAdd(now, d)
    /\ UNCHANGED <<weapons, reloadBase, lastFired, lastCall, stormVars, playerVars, gameVars>>

\* controls.moveRight / controls.moveForward with the camera in its initial
\* orientation: right is +x, forward is -z.  Under the host loop only KeyW,
\* KeyS and ShiftLeft are pressed, so the velocity components are rational.
MovePosition(pos, p, delta) ==
    << RAdd(pos[1], RMul(p.velocity.x.q, delta)),
       RSub(pos[2], RMul(p.velocity.z.q, delta)) >>

\* Game.animate with the storm ticked at the position the actor had before
\* the movement of the frame.
AnimateStale ==
    /\ \E delta \in {RSub(now, oldTime)} :
         /\ oldTime' = now
         /\ IF isGameRunning
            THEN \E p1 \in {PlayerMove(player, delta, NoHits, NoHit)} :
                 \E pos1 \in {MovePosition(position, p1, delta)} :
                    /\ position' = pos1
                    /\ query' = NoQuery
                    /\ moved' = [right |-> SScale(p1.velocity.x, delta),
                                 forward |-> SScale(p1.velocity.z, delta),
                                 direction |-> Direction(player)]
                    /\ WeaponTick(delta)
                    /\ StormUpdate(delta, position)
                    /\ player' = IF RLt(Zero, stormRet')
                                 THEN PlayerTakeDamage(p1, stormRet') ELSE p1
                    /\ lastCall' = Call("animate", 0, delta)
            ELSE UNCHANGED <<position, query, moved, weapons, reloadBase, lastFired,
                             player, lastCall, stormVars>>
    /\ UNCHANGED <<now, pickups, initPc, isGameRunning>>

\* Game.animate in open ground: the frame time is taken from the clock on
\* every frame and handed to the updates only while the game is running.
Animate ==
    /\ \E delta \in {RSub(now, oldTime)} :
         /\ oldTime' = now
         /\ IF isGameRunning
            THEN \E p1 \in {PlayerMove(player, delta, NoHits, NoHit)} :
                 \E pos1 \in {MovePosition(position, p1, delta)} :
                    /\ position' = pos1
                    /\ query' = NoQuery
                    /\ moved' = [right |-> SScale(p1.velocity.x, delta),
                                 forward |-> SScale(p1.velocity.z, delta),
                                 direction |-> Direction(player)]
                    /\ WeaponTick(delta)
                    /\ StormUpdate(delta, pos1)
                    /\ player' = IF RLt(Zero, stormRet')
                                 THEN PlayerTakeDamage(p1, stormRet') ELSE p1
                    /\ lastCall' = Call("animate", 0, delta)
            ELSE UNCHANGED <<position, query, moved, weapons, reloadBase, lastFired,
                             player, lastCall, stormVars>>
    /\ UNCHANGED <<now, pickups, initPc, isGameRunning>>

\* Game.onKeyDown / onKeyUp for KeyW, KeyS and ShiftLeft.
RunKeys ==
    /\ isGameRunning
    /\ \E b \in BOOLEAN :
         \/ player' = [player EXCEPT !.moveForward = b]
         \/ player' = [player EXCEPT !.moveBackward = b]
         \/ player' = [player EXCEPT !.sprint = b]
    /\ lastCall' = Call("key", 0, Zero)
    /\ NoUpdate
    /\ UNCHANGED <<pickups, initPc, weapons, now, reloadBase, lastFired, stormVars, gameVars>>

\* Promise.all has resolved: initWeapons ends with switchWeapon(0) and
\* Game.init goes on, with no frame or event in between, to replace the
\* storm made by the constructor by a new Storm.
GameInitEnd ==
    /\ initPc = "loading"
    /\ \A i \in DOMAIN weapons : weapons[i].muzzleFlash
    /\ player' = PlayerSwitchWeapon(player, weapons, 0).player
    /\ weapons' = PlayerSwitchWeapon(player, weapons, 0).weapons
    /\ initPc' = "ready"
    /\ radius' = initialRadius
    /\ targetRadius' = initialRadius
    /\ phase' = "paused"
    /\ timeRemaining' = pauseDuration
    /\ nextPhaseTime' = pauseDuration
    /\ lastCall' = Call("gameInit", 0, Zero)
    /\ NoUpdate
    /\ UNCHANGED <<stormDelta, stormPos, stormRet, now, reloadBase, lastFired,
                   pickups, gameVars>>

\* Length of a match in quarters of a minute.
MaxQuarters == 2

\* A quarter of a minute passes.
WaitLong ==
    /\ RLe(RAdd(now, R(15)), R(15 * MaxQuarters))
    /\ now' = RAdd(now, R(15))
    /\ UNCHANGED <<weapons, reloadBase, lastFired, lastCall, stormVars, playerVars, gameVars>>

\* Game.onKeyDown for Digit1, Digit2, Digit3: Player.switchWeapon(0 .. 2).
DigitKey ==
    /\ isGameRunning
    /\ \E index \in 0..2 :
         /\ player' = PlayerSwitchWeapon(player, weapons, index).player
         /\ weapons' = PlayerSwitchWeapon(player, weapons, index).weapons
         /\ lastCall' = Call("switchWeapon", 0, R(index))
    /\ NoUpdate
    /\ UNCHANGED <<now, reloadBase, lastFired, pickups, initPc, stormVars, gameVars>>

\* Wall-clock horizon of the runs with the whole inventory, in seconds.
MaxSeconds == 15

\* A second passes.
WaitSecond ==
    /\ RLe(RAdd(now, R(1)), R(MaxSeconds))
    /\ now' = RAdd(now, R(1))
    /\ UNCHANGED <<weapons, reloadBase, lastFired, lastCall, stormVars, playerVars, gameVars>>

----------------------------------------------------------------------------
(* Specifications                                                          *)

StormInit == StormStart /\ NoWeapons /\ PlayerStart /\ GameStart
StormNext == StormTick
SpecStorm == StormInit /\ [][StormNext]_vars

StormLoopNext == StormTickPositive
FairSpecStorm == StormInit /\ [][StormLoopNext]_vars /\ WF_vars(StormTickPositive)

WeaponInit == StormStart /\ WeaponStart /\ PlayerStart /\ GameStart
WeaponNext == Elapse \/ ShootCall \/ ReloadCall \/ UpdateCall \/ AddAmmoCall
SpecWeapon == WeaponInit /\ [][WeaponNext]_vars

StatsInit == StormStart /\ NoWeapons /\ PlayerStart /\ GameStart
StatsNext == TakeDamageCall \/ HealCall \/ AddArmorCall \/ PickUpPowerUpCall
SpecPlayerStats == StatsInit /\ [][StatsNext]_vars

InventoryInit == StormStart /\ NoWeapons /\ PlayerStart /\ GameStart
InventoryNext == InitWeapons \/ WeaponInitDone \/ InitWeaponsEnd \/ SwitchWeaponCall
SpecInventory == InventoryInit /\ [][InventoryNext]_vars

MoveInit == StormStart /\ NoWeapons /\ PlayerStart /\ GameStart
MoveNext == SetFlags \/ ToggleCrouchCall \/ PlayerUpdateCall
SpecPlayerMove == MoveInit /\ [][MoveNext]_vars

LadderNext == LadderKeys \/ JumpCall \/ CrouchKey \/ LadderUpdateCall
SpecLadder == MoveInit /\ [][LadderNext]_vars

\* A weapon with a magazine of two rounds, full or half full.
TriggerConfigs ==
    { [fireRate |-> R(10), reloadTime |-> Q(3, 20), maxAmmo |-> 2,
       maxReserveAmmo |-> 2, ammo |-> a, reserveAmmo |-> 2] : a \in 1..2 }

TriggerStart ==
    /\ \E c \in TriggerConfigs, loaded \in BOOLEAN : weapons = <<NewWeapon(c, loaded)>>
    /\ now = Zero
    /\ reloadBase = <<[total |-> 0, added |-> FALSE, elapsed |-> Zero]>>
    /\ lastFired = <<Never>>
    /\ lastCall = Call("new", 0, Zero)

TriggerInit == StormStart /\ TriggerStart /\ PlayerStart /\ GameStart
TriggerNext == Lock \/ Unlock \/ Wait \/ MouseDown \/ Animate
SpecTrigger == TriggerInit /\ [][TriggerNext]_vars

GameInit == StormStart /\ NoWeapons /\ PlayerStart /\ GameStart
GameNext ==
    \/ InitWeapons \/ WeaponInitDone \/ GameInitEnd
    \/ Lock \/ RunKeys \/ WaitLong \/ Animate
SpecGame == GameInit /\ [][GameNext]_vars

\* A match fourteen seconds in, with one cartridge left in the shotgun. It is
\* the state the constructor state reaches by: initWeapons and the three
\* Weapon.init, the end of Game.init, the pointer lock and the key 2, all
\* at time 0; then a frame every second, and a click at the seconds
\* 1, 3, .., 13 (each after the frame of that second).
ArsenalStart ==
    /\ weapons = [Inventory(TRUE) EXCEPT ![2].ammo = 1,
                                         ![2].lastShotTime = R(14),
                                         ![2].visible = TRUE]
    /\ now = R(14)
    /\ reloadBase = [i \in 1..3 |-> [total |-> 0, added |-> FALSE, elapsed |-> Zero]]
    /\ lastFired = <<Never, R(13), Never>>
    /\ lastCall = Call("animate", 0, R(1))
    /\ player = [NewPlayer EXCEPT !.currentWeaponIndex = 1, !.y = R(1)]
    /\ pickups = 0
    /\ initPc = "ready"
    /\ query = NoQuery
    /\ moved = NoMove
    /\ radius = initialRadius
    /\ targetRadius = initialRadius
    /\ phase = "paused"
    /\ timeRemaining = R(16)
    /\ nextPhaseTime = pauseDuration
    /\ stormDelta = R(1)
    /\ stormPos = <<R(30), R(30)>>
    /\ stormRet = Zero
    /\ isGameRunning = TRUE
    /\ oldTime = R(14)
    /\ position = <<R(30), R(30)>>

ArsenalNext == DigitKey \/ MouseDown \/ WaitSecond \/ Animate
SpecArsenal == ArsenalStart /\ [][ArsenalNext]_vars

----------------------------------------------------------------------------
(* Storm properties                                                        *)

\* C1: the radius after a Storm.update call is never greater than the
\* radius before it.
C1_RadiusNeverGrows == [][RLe(radius', radius)]_vars

C1_Witness == phase = "shrinking" /\ RLt(radius, initialRadius) /\ RLt(targetRadius, radius)

\* C2: in every reachable state the radius is at least finalRadius.
C2_RadiusAtLeastFinal == RLe(finalRadius, radius)

C2_Witness == radius = finalRadius /\ targetRadius = finalRadius /\ phase = "shrinking"

\* C3: under repeated updates with positive dt the radius eventually
\* equals finalRadius and stays there, while the phase keeps alternating
\* between paused and shrinking.
C3_Original ==
    /\ <>[](radius = finalRadius)
    /\ []<>(phase = "paused")
    /\ []<>(phase = "shrinking")

\* C6: update returns damage * dt when the planar distance to the centre is
\* strictly greater than the radius left by that call, and 0 otherwise; at
\* distance 25, radius 20, dt 1/2 it returns 1.
DistSq(pos) == RAdd(RMul(pos[1], pos[1]), RMul(pos[2], pos[2]))

C6_DamageRule ==
    /\ RLt(RMul(radius, radius), DistSq(stormPos)) => stormRet = RMul(R(2), stormDelta)
    /\ RLe(DistSq(stormPos), RMul(radius, radius)) => stormRet = Zero
    /\ StormDamage(<<R(15), R(20)>>, R(20), Q(1, 2)) = R(1)
    /\ StormDamage(<<R(20), R(0)>>, R(20), Q(1, 2)) = Zero

C6_Witness ==
    /\ stormPos = <<R(15), R(20)>>
    /\ radius = R(20)
    /\ RLt(Zero, stormDelta)
    /\ stormRet = RMul(R(2), stormDelta)

----------------------------------------------------------------------------
(* Weapon properties                                                       *)

C5_ReloadConserves ==
    [][\A i \in DOMAIN weapons :
          (weapons[i].isReloading /\ ~weapons'[i].isReloading /\ ~reloadBase'[i].added)
              => Total(weapons'[i]) = reloadBase[i].total]_vars

C5_Witness ==
    \E i \in DOMAIN weapons :
        /\ ~weapons[i].isReloading
        /\ lastCall = Call("update", i, Q(1, 10))
        /\ ~reloadBase[i].added
        /\ reloadBase[i].total > 0
        /\ Total(weapons[i]) = reloadBase[i].total
        /\ weapons[i].reserveAmmo < weapons[i].config.reserveAmmo

\* The step being taken is a shoot() call on weapon i.
ShootStep(i) == lastCall' = Call("shoot", i, Zero) /\ now' = now

Cooldown == Q(1, 10)

\* C7 as stated: with fireRate 10 and the magazine emptied by a shot, a
\* shoot() made before the 0.1 s cooldown has elapsed does not start a reload.
C7_Original ==
    [][\A i \in DOMAIN weapons :
          (/\ ShootStep(i)
           /\ weapons[i].ammo = 0 /\ ~weapons[i].isReloading
           /\ lastFired[i] # Never
           /\ RLt(RSub(now, lastFired[i]), Cooldown))
              => ~weapons'[i].isReloading /\ weapons'[i].ammo = 0]_vars

\* C7 amended: a shoot() with one round left and the cooldown elapsed fires
\* and leaves ammo = 0; any later shoot() on the empty magazine, also one
\* made 0.05 s later inside the cooldown, does not fire (ammo stays 0) and
\* calls reload() at once: reloading becomes true exactly when reserveAmmo > 0.
C7_Amended ==
    [][\A i \in DOMAIN weapons :
          ShootStep(i) =>
            /\ (/\ weapons[i].ammo = 1 /\ ~weapons[i].isReloading
                /\ RLe(Cooldown, RSub(now, weapons[i].lastShotTime)))
                  => weapons'[i].ammo = 0 /\ ~weapons'[i].isReloading
            /\ (weapons[i].ammo = 0 /\ ~weapons[i].isReloading)
                  => /\ weapons'[i].ammo = 0
                     /\ weapons'[i].isReloading = (weapons[i].reserveAmmo > 0)
                     /\ weapons'[i].reserveAmmo = weapons[i].reserveAmmo]_vars

\* the reload begun by a shoot() made 0.05 s after the shot that emptied
\* the magazine
C7_Witness ==
    \E i \in DOMAIN weapons :
        /\ lastCall = Call("shoot", i, Zero)
        /\ weapons[i].isReloading /\ weapons[i].ammo = 0
        /\ weapons[i].lastShotTime = Zero
        /\ lastFired[i] # Never
        /\ RSub(now, lastFired[i]) = Q(1, 20)

----------------------------------------------------------------------------
(* Player properties                                                       *)

\* C8: takeDamage(amount) removes min(armor, amount / 2) from armor and
\* subtracts the rest of amount from health, clamped at 0; takeDamage(40)
\* with armor 30 leaves armor 10 and takes 20 from health.
C8_TakeDamage ==
    [][\A amount \in DamageAmounts :
          lastCall' = Call("takeDamage", 0, amount) =>
            LET absorbed == RMin(player.armor, RMul(amount, Q(1, 2)))
            IN  /\ player'.armor = RSub(player.armor, absorbed)
                /\ player'.health =
                     RMax(Zero, RSub(player.health, RSub(amount, absorbed)))
                /\ (amount = R(40) /\ player.armor = R(30))
                     => /\ player'.armor = R(10)
                        /\ player'.health = RMax(Zero, RSub(player.health, R(20)))]_vars

C8_Witness ==
    /\ lastCall = Call("takeDamage", 0, R(40))
    /\ player.armor = R(10)
    /\ player.health = R(80)

\* C9: health stays within [0, maxHealth] and armor within [0, maxArmor].
C9_StatsClamped ==
    /\ RLe(Zero, player.health) /\ RLe(player.health, R(100))
    /\ RLe(Zero, player.armor) /\ RLe(player.armor, R(100))

\* C10: when a Player.update finds an obstacle straight ahead (the forward
\* ray) nearer than playerRadius + collisionDistance = 1.5 while the forward
\* flag gives a positive intended forward velocity, the forward velocity
\* after the update is exactly 0 and the actor is moved forward by 0.
C10_BlockedAhead ==
    [][(/\ query'.hits.forward # NoHit
        /\ RLt(query'.hits.forward, Q(3, 2))
        /\ player.moveForward /\ ~player.moveBackward)
          => player'.velocity.z = SZero /\ moved'.forward = SZero]_vars

C10_Witness ==
    /\ query.hits.forward = Q(2, 5)
    /\ player.moveForward /\ ~player.moveBackward /\ player.moveRight
    /\ player.velocity.z = SZero
    /\ SPositive(moved.right)

\* The square of a direction component, and of the direction's magnitude.
SSquare(s) == RDiv(RMul(s.q, s.q), IF s.root THEN R(2) ELSE R(1))

MagnitudeSq(d) == RAdd(SSquare(d.x), SSquare(d.z))

\* No movement flag is set, or the set flags cancel in opposing pairs.
FlagsCancel(p) == p.moveForward = p.moveBackward /\ p.moveLeft = p.moveRight

\* C11: for every combination of the four movement flags the direction
\* computed by Player.update has magnitude at most 1, and it is the zero
\* vector when no flag is set or the set flags cancel in opposing pairs.
C11_DirectionBounded ==
    /\ RLe(MagnitudeSq(moved.direction), R(1))
    /\ \A p \in [moveForward : BOOLEAN, moveBackward : BOOLEAN,
                  moveLeft : BOOLEAN, moveRight : BOOLEAN] :
          /\ RLe(MagnitudeSq(Direction(p)), R(1))
          /\ FlagsCancel(p) => Direction(p) = [x |-> SZero, z |-> SZero]
    /\ (query # NoQuery /\ FlagsCancel(player))
          => moved.direction = [x |-> SZero, z |-> SZero]

\* an update made with the forward and left flags set: a diagonal direction
C11_Witness ==
    /\ query # NoQuery
    /\ player.moveForward /\ player.moveLeft
    /\ ~player.moveBackward /\ ~player.moveRight
    /\ moved.direction.x.root /\ moved.direction.z.root
    /\ MagnitudeSq(moved.direction) = R(1)

----------------------------------------------------------------------------
(* Weapon guards and timing                                                *)

\* The step being taken is a reload() / update(delta) call on weapon i.
ReloadStep(i) == lastCall' = Call("reload", i, Zero) /\ now' = now

UpdateStep(i, delta) == lastCall' = Call("update", i, delta) /\ now' = now

\* C12: shoot() on a reloading weapon changes nothing: ammo, reserveAmmo,
\* the reloading flag, the timer and the flash are as before, and no shot
\* (hitscan) is made.
C12_ShootWhileReloading ==
    [][\A i \in DOMAIN weapons :
          (ShootStep(i) /\ weapons[i].isReloading)
              => weapons'[i] = weapons[i] /\ lastFired'[i] = lastFired[i]]_vars

\* a shoot() on a weapon whose reload was started by reload(), with rounds
\* left in the magazine
C12_Witness ==
    \E i \in DOMAIN weapons :
        /\ lastCall = Call("shoot", i, Zero)
        /\ weapons[i].isReloading /\ weapons[i].ammo > 0
        /\ RLe(Q(1, 10), now)

\* C13: shoot() with ammo = 0 and not reloading never fires (ammo stays 0,
\* no shot is recorded, the flash is untouched); it calls reload(), so the
\* weapon is reloading afterwards exactly when reserveAmmo > 0.
C13_EmptyShootReloads ==
    [][\A i \in DOMAIN weapons :
          (ShootStep(i) /\ weapons[i].ammo = 0 /\ ~weapons[i].isReloading)
              => /\ weapons'[i].ammo = 0
                 /\ lastFired'[i] = lastFired[i]
                 /\ weapons'[i].flashVisible = weapons[i].flashVisible
                 /\ weapons'[i] = WeaponReload(weapons[i])
                 /\ weapons'[i].isReloading <=> weapons[i].reserveAmmo > 0]_vars

\* a weapon constructed empty whose first shoot() started the reload
C13_Witness ==
    \E i \in DOMAIN weapons :
        /\ lastCall = Call("shoot", i, Zero)
        /\ weapons[i].isReloading /\ weapons[i].ammo = 0
        /\ weapons[i].reserveAmmo > 0
        /\ lastFired[i] = Never
        /\ reloadBase[i].elapsed = Zero

\* C14: reload() changes nothing when the weapon is reloading, when ammo
\* equals maxAmmo or when reserveAmmo is 0; otherwise it sets reloading and
\* resets the shared timer to 0, leaving ammo and reserveAmmo as they were.
C14_ReloadGuards ==
    [][\A i \in DOMAIN weapons :
          ReloadStep(i) =>
            IF \/ weapons[i].isReloading
               \/ weapons[i].ammo = weapons[i].config.maxAmmo
               \/ weapons[i].reserveAmmo = 0
            THEN weapons'[i] = weapons[i]
            ELSE /\ weapons'[i].isReloading
                 /\ weapons'[i].lastShotTime = Zero
                 /\ weapons'[i].ammo = weapons[i].ammo
                 /\ weapons'[i].reserveAmmo = weapons[i].reserveAmmo]_vars

\* a reload() accepted after a shot
C14_Witness ==
    \E i \in DOMAIN weapons :
        /\ lastCall = Call("reload", i, Zero)
        /\ weapons[i].isReloading
        /\ weapons[i].lastShotTime = Zero
        /\ lastFired[i] # Never
        /\ weapons[i].ammo < weapons[i].config.maxAmmo

Min(a, b) == IF a < b THEN a ELSE b

AddAmmoStep(i, amount) == lastCall' = Call("addAmmo", i, R(amount)) /\ now' = now

\* C16: reserveAmmo <= maxReserveAmmo and ammo + reserveAmmo <= maxAmmo +
\* maxReserveAmmo in every state; addAmmo(amount) raises reserveAmmo by
\* amount, but not above maxReserveAmmo, and leaves ammo unchanged.
C16_ReserveBounded ==
    /\ [](\A i \in DOMAIN weapons :
            /\ weapons[i].reserveAmmo <= weapons[i].config.maxReserveAmmo
            /\ Total(weapons[i]) <= weapons[i].config.maxAmmo
                                       + weapons[i].config.maxReserveAmmo)
    /\ [][\A i \in DOMAIN weapons : \A amount \in AmmoPickups :
            AddAmmoStep(i, amount) =>
              /\ weapons'[i].reserveAmmo =
                    Min(weapons[i].config.maxReserveAmmo, weapons[i].reserveAmmo + amount)
              /\ weapons'[i].ammo = weapons[i].ammo]_vars

\* an addAmmo(2) that was cut off at maxReserveAmmo
C16_Witness ==
    \E i \in DOMAIN weapons :
        /\ lastCall = Call("addAmmo", i, R(2))
        /\ weapons[i].reserveAmmo = weapons[i].config.maxReserveAmmo
        /\ weapons[i].config.reserveAmmo = weapons[i].config.maxReserveAmmo - 1
        /\ weapons[i].ammo = weapons[i].config.ammo
        /\ lastFired[i] = Never

\* C19: the reloading flag and the muzzle-flash-visible flag are never both
\* true.
C19_ReloadExcludesFlash ==
    \A i \in DOMAIN weapons :
        ~(weapons[i].isReloading /\ weapons[i].muzzleFlash /\ weapons[i].flashVisible)

\* C20: a reload never completes early: when the reloading flag is cleared,
\* the dt passed to update since reload() was accepted sum to at least
\* reloadTime.
C20_NoEarlyCompletion ==
    [][\A i \in DOMAIN weapons :
          (weapons[i].isReloading /\ ~weapons'[i].isReloading)
              => RLe(weapons[i].config.reloadTime, reloadBase'[i].elapsed)]_vars

----------------------------------------------------------------------------
(* Storm phase machine                                                     *)

\* The timer decrement of the update being made brings timeRemaining to <= 0.
TimerExpires == RLe(RSub(timeRemaining, stormDelta'), Zero)

\* C18: the storm starts paused and its phase changes only in an update
\* whose timer decrement brings timeRemaining to <= 0: from paused to
\* shrinking with timeRemaining = shrinkDuration and targetRadius =
\* max(0.7 * radius, finalRadius); from shrinking to paused with
\* timeRemaining = pauseDuration and targetRadius unchanged.
C18_PhaseAlternation ==
    /\ phase = "paused"
    /\ [][phase' # phase =>
            /\ TimerExpires
            /\ phase = "paused" =>
                  /\ phase' = "shrinking"
                  /\ timeRemaining' = R(60)
                  /\ targetRadius' =
                        RMax(RoundRadius(RMul(Q(7, 10), radius)), R(20))
            /\ phase = "shrinking" =>
                  /\ phase' = "paused"
                  /\ timeRemaining' = R(30)
                  /\ targetRadius' = targetRadius]_vars

\* the pause that follows a completed paused -> shrinking -> paused round
C18_Witness ==
    /\ phase = "paused"
    /\ timeRemaining = pauseDuration
    /\ RLt(targetRadius, initialRadius)
    /\ RLt(Zero, stormDelta)

----------------------------------------------------------------------------
(* Weapon inventory                                                        *)

\* The step being taken is a switchWeapon(index) call.
SwitchStep(index) == lastCall' = Call("switchWeapon", 0, R(index))

InRange(index) == index >= 0 /\ index < Len(weapons)

AtMostOneShown ==
    Cardinality({i \in DOMAIN weapons : weapons[i].visible}) <= 1

\* C17 as stated: switchWeapon(index) with index out of range changes
\* neither the active index nor any weapon; with index in range the active
\* index becomes index, the weapon active before is hidden and the new one
\* is shown, and at most one weapon is shown at any time.
C17_Original ==
    /\ []AtMostOneShown
    /\ [][\A index \in SwitchIndexes :
            SwitchStep(index) =>
              IF InRange(index)
              THEN /\ player'.currentWeaponIndex = index
                   /\ player.currentWeaponIndex # index
                        => ~weapons'[player.currentWeaponIndex + 1].visible
                   /\ weapons'[index + 1].visible
              ELSE player' = player /\ weapons' = weapons]_vars

\* C17 amended: as above, except that the newly active weapon is shown
\* exactly when its model has been loaded; a weapon whose Weapon.init has
\* not resolved yet stays invisible.
C17_Amended ==
    /\ []AtMostOneShown
    /\ [][\A index \in SwitchIndexes :
            SwitchStep(index) =>
              IF InRange(index)
              THEN /\ player'.currentWeaponIndex = index
                   /\ player.currentWeaponIndex # index
                        => ~weapons'[player.currentWeaponIndex + 1].visible
                   /\ weapons'[index + 1].visible = weapons[index + 1].muzzleFlash
                   /\ \A i \in DOMAIN weapons :
                        weapons'[i].visible => i = index + 1
              ELSE player' = player /\ weapons' = weapons]_vars

\* the second weapon selected after the first had been shown
C17_Witness ==
    /\ initPc = "done"
    /\ lastCall = Call("switchWeapon", 0, R(1))
    /\ player.currentWeaponIndex = 1
    /\ Len(weapons) = 3
    /\ weapons[2].visible /\ ~weapons[1].visible /\ ~weapons[3].visible

----------------------------------------------------------------------------
(* Storm timer                                                             *)

\* C28: when an update takes the storm from shrinking to paused, the radius
\* it leaves equals the targetRadius of the shrinking phase that ends.
C28_ShrinkReachesTarget ==
    [][(phase = "shrinking" /\ phase' = "paused") => radius' = targetRadius]_vars

\* C29: after every update with dt >= 0 timeRemaining is strictly positive
\* and at most the duration of the current phase (60 shrinking, 30 paused);
\* an update whose decrement brings the timer to <= 0 makes one phase
\* transition and restarts the timer at the full duration of the new phase.
C29_TimerPositive ==
    /\ [](/\ RLt(Zero, timeRemaining)
          /\ phase = "shrinking" => RLe(timeRemaining, R(60))
          /\ phase = "paused" => RLe(timeRemaining, R(30)))
    /\ [][TimerExpires =>
            /\ phase' # phase
            /\ timeRemaining' = IF phase' = "shrinking" THEN R(60) ELSE R(30)]_vars

\* a pause with 15 s left ended by an update of dt = 60: the 45 s of
\* overshoot are dropped
C29_Witness ==
    /\ phase = "shrinking"
    /\ timeRemaining = shrinkDuration
    /\ stormDelta = R(60)
    /\ nextPhaseTime = shrinkDuration
    /\ RLt(radius, initialRadius)

----------------------------------------------------------------------------
(* Climbing and the ground floor                                           *)

\* The step being taken is a Player.update call.
PlayerUpdateStep == lastCall'.op = "update" /\ lastCall'.i = 0

\* C25: an update of an actor in climbing mode, the ladder still in reach
\* (the climbing ray of the update finds a surface nearer than 3/2),
\* leaves the vertical velocity at +3 when forward is held and at -3 when
\* only backward is held (or at 0 if that descent ended on the floor), so
\* that the actor holding backward descends; gravity is not applied.
C25_ClimbBothWays ==
    [][(PlayerUpdateStep /\ player.isClimbing
          /\ query'.climb # NoHit /\ RLt(query'.climb, Q(3, 2))) =>
          /\ player.moveForward => player'.velocity.y = R(3)
          /\ (player.moveBackward /\ ~player.moveForward) =>
                \/ player'.velocity.y = R(-3) /\ RLt(player'.y, player.y)
                \/ player'.velocity.y = Zero /\ player'.y = StanceFloor(player')]_vars

\* position.y of the update being made after `position.y += velocity.y *
\* delta`, before the floor test.
UnclampedY ==
    LET p2 == ClimbingMovement(ApplyGravity(CheckClimbing(player, query'.climb),
                                            lastCall'.arg))
    IN  RAdd(player.y, RMul(p2.velocity.y, lastCall'.arg))

\* C26: after every Player.update, whatever jump and toggleCrouch calls
\* came before it, Y is at least half the stance height (1/2 crouching,
\* 1 standing), and an update that snapped Y to that floor leaves the
\* vertical velocity 0.
C26_GroundFloor ==
    [][PlayerUpdateStep =>
          /\ RLe(IF player'.isCrouching THEN Q(1, 2) ELSE R(1), player'.y)
          /\ RLt(UnclampedY, StanceFloor(player)) =>
                /\ player'.y = StanceFloor(player)
                /\ player'.velocity.y = Zero]_vars

\* a crouching actor put on the floor by an update: the actor starts above
\* the floor, so it got there by a snap
C26_Witness ==
    /\ lastCall = Call("update", 0, Q(1, 2))
    /\ player.isCrouching
    /\ player.y = Q(1, 2)
    /\ player.velocity.y = Zero
    /\ ~player.isClimbing

----------------------------------------------------------------------------
(* The trigger under the host loop                                         *)

\* C21: two shoot() calls on one weapon that both fire are at least the
\* cooldown interval 1/fireRate = 0.1 s apart.
C21_RateLimit ==
    [][\A i \in DOMAIN weapons :
          (/\ ShootStep(i)
           /\ weapons'[i].ammo < weapons[i].ammo
           /\ lastFired[i] # Never)
              => RLe(Cooldown, RSub(now, lastFired[i]))]_vars

\* C22: a shoot() on a weapon that is not reloading and has ammo > 0 fires
\* (ammo one less, reserveAmmo unchanged) when the weapon has not fired yet
\* or its last firing shot is at least 0.1 s old, whatever updates ran in
\* between.
C22_FiresWhenCooled ==
    [][\A i \in DOMAIN weapons :
          (/\ ShootStep(i)
           /\ ~weapons[i].isReloading /\ weapons[i].ammo > 0
           /\ \/ lastFired[i] = Never
              \/ RLe(Cooldown, RSub(now, lastFired[i])))
              => /\ weapons'[i].ammo = weapons[i].ammo - 1
                 /\ weapons'[i].reserveAmmo = weapons[i].reserveAmmo]_vars

\* How far weapon w, which has fired, is at time t through its reload, or
\* else through the cooldown of its last shot.
TimerProgress(w, t) ==
    IF w.isReloading
    THEN w.lastShotTime
    ELSE RMax(Zero, RMin(w.shootingInterval, RSub(t, w.lastShotTime)))

\* C24: while the game is not running nothing of the three machines
\* changes: the actor's position, velocity, health and armor, every
\* weapon's ammo, reserve, reloading flag and cooldown / reload progress,
\* the storm's radius, phase and timeRemaining.
C24_FrozenWhileStopped ==
    [][(~isGameRunning /\ ~isGameRunning') =>
          /\ player' = player /\ position' = position
          /\ radius' = radius /\ phase' = phase /\ timeRemaining' = timeRemaining
          /\ DOMAIN weapons' = DOMAIN weapons
          /\ \A i \in DOMAIN weapons :
                /\ weapons'[i].ammo = weapons[i].ammo
                /\ weapons'[i].reserveAmmo = weapons[i].reserveAmmo
                /\ weapons'[i].isReloading = weapons[i].isReloading
                /\ lastFired[i] # Never =>
                      TimerProgress(weapons'[i], now') = TimerProgress(weapons[i], now)]_vars

----------------------------------------------------------------------------
(* The frame of the host loop                                              *)

\* The step being taken is a frame of Game.animate with the game running.
RunningFrame == isGameRunning /\ lastCall'.op = "animate" /\ now' = now

C27_StormOnlyUpdated ==
    [][(radius' # radius \/ phase' # phase \/ timeRemaining' # timeRemaining)
          => RunningFrame]_vars

----------------------------------------------------------------------------
(* The weapons that are not in hand                                        *)

\* C30: a weapon that is not the selected one is not ticked: a frame of the
\* running game leaves it as it was, and as long as it is not selected no
\* step changes its ammo, reserveAmmo, reloading flag or timer, so that a
\* reload started before the switch makes no progress.
C30_OnlyActiveTicked ==
    [][\A i \in DOMAIN weapons :
          i # player.currentWeaponIndex + 1 =>
             /\ RunningFrame =>
                   /\ weapons'[i] = weapons[i]
                   /\ reloadBase'[i] = reloadBase[i]
             /\ weapons'[i].ammo = weapons[i].ammo
             /\ weapons'[i].reserveAmmo = weapons[i].reserveAmmo
             /\ weapons'[i].isReloading = weapons[i].isReloading
             /\ weapons'[i].lastShotTime = weapons[i].lastShotTime]_vars

\* The shotgun was emptied and put to reload, the rifle was taken, and a
\* frame of one second has run since: the reload has not advanced.
C30_Witness ==
    /\ lastCall = Call("animate", 0, R(1))
    /\ isGameRunning
    /\ player.currentWeaponIndex = 0
    /\ weapons[2].isReloading
    /\ weapons[2].ammo = 0
    /\ weapons[2].lastShotTime = Zero
    /\ reloadBase[2].elapsed = Zero

====
